---- MODULE Spec2Model ----
(***************************************************************************)
(* Session-to-worker orchestration of computer_use_backend:                *)
(*   services/worker.py        Worker, WorkerPool                          *)
(*   services/agent_service.py AgentService.process_message (multiplexer)  *)
(*   services/session_manager.py SessionManager.get_or_create_worker       *)
(*   services/stream_handler.py StreamHandler (connection registry)        *)
(*   routers/sessions.py       process_and_stream (forwards the updates)   *)
(*                                                                         *)
(* The program runs on one asyncio event loop: a coroutine runs without    *)
(* interruption from one suspending await to the next.  Every action below *)
(* is one such uninterrupted stretch of one task.                          *)
(***************************************************************************)
EXTENDS Integers, Sequences, FiniteSets, TLC

\* ---------------------------------------------------------------- bounds
\* Sessions driven concurrently, and Worker objects constructed during a run.
NumSessions == 2
MaxObjs == 2
\* WorkerPool.max_workers is 100 in the source (worker.py:193); the model
\* scales it down so that the capacity branch is reached.
max_workers == 1
\* Callbacks the delegate engine makes during one submission.
MaxEmit == 2
\* WebSocket objects that connect during a run.
NumSockets == 2
\* Broadcasts whose deliveries the history follows.
MaxBroadcasts == 2
\* Rows the messages table holds at most.
MaxMessages == 3

Sessions == 1..NumSessions
\* Two caller tasks share the event loop; each issues any number of calls,
\* one after the other.
Tasks == {1, 2}
ObjIds == 1..MaxObjs
Sockets == 1..NumSockets
\* Python's None for an absent Worker reference.
None == 0

\* Worker.status is one of "initializing", "ready", "processing", "error",
\* "terminating", "terminated", "failed"; "none" marks an object slot that
\* no Worker has been constructed in yet.

VARIABLES
    workers,     \* WorkerPool.workers: session_id -> Worker (None = no key)
    nobjs,       \* Worker objects constructed so far; worker_id = index
    wsession,    \* Worker.session_id
    status,      \* Worker.status
    agent_service, \* Worker.agent_service is not None
    task,        \* per caller task: the call it runs and where it stands
    sub,         \* per caller task: the submission it drives
    event,       \* history: the call that completed last and its outcome
    active_connections, \* StreamHandler.active_connections: session_id -> set
    lock,        \* StreamHandler._lock: the task that holds it, or None
    call,        \* per caller task: the StreamHandler call it is inside
    last,        \* history: the looping StreamHandler call that has just
                 \* returned (NoCall once another call has started)
    feed,        \* per caller task: where its process_and_stream stands
    limit,       \* WorkerPool.max_workers of the pool that was constructed
    delivered,   \* history: the broadcasts made and the sockets they reached
    endpoint,    \* per socket: where its websocket_stream route stands
    sessions,    \* the sessions table: session_id -> status ("none" = no row)
    messages     \* the messages table: its rows in insertion (rowid) order

poolvars == <<workers, nobjs, wsession, status, agent_service, task, sub, event>>
regvars == <<active_connections, lock, call, last, feed>>
appvars == <<limit, delivered, endpoint, sessions, messages>>
vars == <<workers, nobjs, wsession, status, agent_service, task, sub, event,
          active_connections, lock, call, last, feed,
          limit, delivered, endpoint, sessions, messages>>

\* ------------------------------------------------------------ task state
IdleTask == [op |-> "none", sid |-> None, wid |-> None, pc |-> "idle", snap |-> {}]

\* The record of a completed call: operation, session, worker, outcome.
\* raised: whether the delegate of a completed submission raised.
\* again: the call before it was a successful spawn_worker of the same session.
Event(op, s, w, r) ==
    [op |-> op, sid |-> s, wid |-> w, res |-> r, raised |-> FALSE, again |-> FALSE]

SpawnReturned(e, s) == e.op = "spawn" /\ e.res = "worker" /\ e.sid = s

\* A task that is inside no StreamHandler call.  start: the connection set
\* the call found; todo: the part of it the loop has not reached; log: the
\* sends (closes) made so far, in order, each with whether it succeeded.
NoCall == [op |-> "none", sid |-> None, upd |-> "none", start |-> {},
           todo |-> {}, log |-> <<>>]

\* A task that runs no process_and_stream.  fwd: how many of the updates its
\* submission has yielded it has passed to broadcast_update.  History of the
\* run: whole, the sockets that were in the session's set at every one of
\* these broadcasts; inbox[l], the updates such a socket was sent, in order
\* (empty for the other sockets).
NoFeed == [phase |-> "idle", sid |-> None, fwd |-> 0, inbox |-> [l \in Sockets |-> <<>>],
           whole |-> {}]

\* A submission not started: AgentService.process_message's locals.
NoSub == [outq |-> <<>>, toolq |-> <<>>, pending |-> <<>>, agent |-> "none",
          emitted |-> 0, yielded |-> <<>>, raised |-> FALSE]

Idle(t) == task[t].pc = "idle"

\* A call returns (or raises) to its caller: the task is idle again and the
\* outcome is recorded.
Return(t, op, s, w, r) ==
    /\ task' = [task EXCEPT ![t] = IdleTask]
    /\ event' = [Event(op, s, w, r) EXCEPT
                    !.again = (op = "spawn" /\ r = "worker" /\ SpawnReturned(event, s))]

\* len(self.workers)
TrackedCount == Cardinality({s \in Sessions : workers[s] # None})

\* What the delegate hands to a callback, as far as the translation looks at
\* it: a content block with its type, or a tool result with the fields that
\* are set.  NoInput: nothing has been handed over.
NoInput ==
    [kind |-> "none", type |-> "none", error |-> FALSE, output |-> FALSE,
     base64_image |-> FALSE]
Inputs ==
    {[NoInput EXCEPT !.kind = "block", !.type = ty] :
        ty \in {"text", "thinking", "tool_use"}}
    \cup {[NoInput EXCEPT !.kind = "tool_result", !.error = e, !.output = o,
                          !.base64_image = i] : e, o, i \in BOOLEAN}


\* No broadcast made yet.  n: the broadcasts started so far, numbered from 1;
\* present[b]: the session's set when broadcast b read it; heard[l]: the
\* broadcasts whose update socket l was sent.
NoDelivery ==
    [n |-> 0, present |-> <<>>, heard |-> [l \in Sockets |-> {}], source |-> NoInput]

\* A socket that has not connected: no route or handler runs for it, it has
\* received nothing and sends to it can succeed.
NoRoute == [phase |-> "none", sid |-> None, wire |-> <<>>, open |-> TRUE]

\* Everything but the capacity of the pool, as construction leaves it.
Constructed ==
    /\ workers = [s \in Sessions |-> None]
    /\ nobjs = 0
    /\ wsession = [w \in ObjIds |-> None]
    /\ status = [w \in ObjIds |-> "none"]
    /\ agent_service = [w \in ObjIds |-> FALSE]
    /\ task = [t \in Tasks |-> IdleTask]
    /\ sub = [t \in Tasks |-> NoSub]
    /\ event = Event("none", None, None, "none")
    /\ active_connections = <<>>
    /\ lock = None
    /\ call = [t \in Tasks |-> NoCall]
    /\ last = NoCall
    /\ feed = [t \in Tasks |-> NoFeed]
    /\ delivered = NoDelivery
    /\ endpoint = [l \in Sockets |-> NoRoute]
    /\ sessions = [s \in Sessions |-> "none"]
    /\ messages = <<>>

Init ==
    /\ Constructed
    /\ limit = max_workers

\* The pool as the tests of SessionManager run it: they create at most five
\* sessions against max_workers = 100, so the capacity is never the limit.
InitRoomy ==
    /\ Constructed
    /\ limit = NumSessions

\* ------------------------------------------------- WorkerPool.spawn_worker
\* Mutant of AtCapacity: the bound tested with > instead of >=.
AtCapacityOffByOne == TrackedCount > limit

\* The capacity test of spawn_worker (worker.py:210).
AtCapacity == TrackedCount >= limit

\* Mutant of AlreadyTracked: the membership test never succeeds.
NeverTracked(s) == FALSE

\* The early return of spawn_worker (worker.py:206-208).
AlreadyTracked(s) == workers[s] # None

\* spawn_worker up to its first suspension: the membership test, the capacity
\* test, Worker(session_id), the start of initialize() and the sleep of
\* _initialize_vm.
spawn_worker(t, s) ==
    /\ Idle(t)
    /\ \/ /\ AlreadyTracked(s)
          /\ Return(t, "spawn", s, workers[s], "worker")
          /\ UNCHANGED <<nobjs, wsession, status>>
       \/ /\ ~AlreadyTracked(s)
          /\ AtCapacity
          /\ Return(t, "spawn", s, None, "capacity")
          /\ UNCHANGED <<nobjs, wsession, status>>
       \/ /\ ~AlreadyTracked(s)
          /\ ~AtCapacity
          /\ nobjs < MaxObjs
          /\ nobjs' = nobjs + 1
          /\ wsession' = [wsession EXCEPT ![nobjs + 1] = s]
          /\ status' = [status EXCEPT ![nobjs + 1] = "initializing"]
          /\ task' = [task EXCEPT ![t] = [op |-> "spawn", sid |-> s,
                          wid |-> nobjs + 1, pc |-> "init_vm",
                          snap |-> {}]]
          /\ UNCHANGED event
    /\ UNCHANGED <<workers, agent_service, sub>>
    /\ UNCHANGED <<regvars, appvars>>

\* SessionManager.get_or_create_worker: get_worker does not suspend, so the
\* lookup and the call of spawn_worker are one stretch.
get_or_create_worker(t, s) ==
    IF workers[s] # None
    THEN /\ Idle(t)
         /\ Return(t, "spawn", s, workers[s], "worker")
         /\ UNCHANGED <<workers, nobjs, wsession, status, agent_service, sub>>
         /\ UNCHANGED <<regvars, appvars>>
    ELSE spawn_worker(t, s)

\* Mutant of Register: the worker is entered under every session.
RegisterEverywhere(s, w) == [x \in Sessions |-> w]

\* What spawn_worker does with a worker whose initialize() succeeded
\* (worker.py:217).
Register(s, w) == [workers EXCEPT ![s] = w]

\* Mutant of AfterInitFailure: the worker is registered before initialize()
\* is known to have succeeded.
InitFailureLeak(s, w) == Register(s, w)

\* The pool after initialize() raised (worker.py:222-224): spawn_worker only
\* logs and re-raises.
AfterInitFailure(s, w) == workers

\* A step of initialize() raises: the one except branch of initialize()
\* (worker.py:55-58) sets failed and re-raises whatever the step was, and
\* spawn_worker re-raises.  err names the step: "display_failed" for
\* _initialize_vm and _initialize_vnc, "init_failed" for _initialize_agent.
initialize_raises(t, err) ==
    /\ status' = [status EXCEPT ![task[t].wid] = "failed"]
    /\ workers' = AfterInitFailure(task[t].sid, task[t].wid)
    /\ Return(t, "spawn", task[t].sid, task[t].wid, err)

\* The outcomes of spawn_worker that are an initialization error.
InitErrors == {"display_failed", "init_failed"}

\* Worker._initialize_vm wakes from its sleep, or acquiring the VM raises;
\* then _initialize_vnc goes to sleep.
initialize_vm(t) ==
    /\ task[t].pc = "init_vm"
    /\ \/ /\ task' = [task EXCEPT ![t].pc = "init_vnc"]
          /\ UNCHANGED <<workers, status, event>>
       \/ initialize_raises(t, "display_failed")
    /\ UNCHANGED <<nobjs, wsession, agent_service, sub>>
    /\ UNCHANGED <<regvars, appvars>>

\* _initialize_vnc wakes or raises; _initialize_agent builds the AgentService
\* or raises; initialize() sets ready or failed; spawn_worker registers and
\* returns, or re-raises.  No await lies between these.
initialize_finish(t) ==
    /\ task[t].pc = "init_vnc"
    /\ LET w == task[t].wid
           s == task[t].sid
       IN \/ /\ agent_service' = [agent_service EXCEPT ![w] = TRUE]
             /\ status' = [status EXCEPT ![w] = "ready"]
             /\ workers' = Register(s, w)
             /\ Return(t, "spawn", s, w, "worker")
          \/ /\ \E err \in InitErrors : initialize_raises(t, err)
             /\ UNCHANGED agent_service
    /\ UNCHANGED <<nobjs, wsession, sub>>
    /\ UNCHANGED <<regvars, appvars>>

\* ------------------------------------------------------------ Worker.cleanup
\* cleanup() never suspends here: vnc_server and vm_instance are never set,
\* so both awaits are skipped.  ok = FALSE is an exception raised while the
\* agent service is released (the except branch, worker.py:135-137).
\* The values cleanup() assigns to self.status, in order (worker.py:116, 132).
CleanupWrites(ok) == IF ok THEN <<"terminating", "terminated">> ELSE <<"terminating">>
CleanupStatus(ok) == CleanupWrites(ok)[Len(CleanupWrites(ok))]
CleanupAgent(w, ok) == IF ok THEN FALSE ELSE agent_service[w]

\* --------------------------------------------- WorkerPool.terminate_worker
\* The pool after terminate_worker's cleanup call (worker.py:253-261): the
\* del is skipped when cleanup raised.
\* Mutant of AfterTerminate: the del is forgotten.
TerminateKeepsEntry(s, ok) == workers

AfterTerminate(s, ok) == IF ok THEN [workers EXCEPT ![s] = None] ELSE workers

\* Mutant of NotFound: the absent worker is not recognised.
NotFoundNever(w) == FALSE

\* `if not worker` on the result of self.workers.get (worker.py:248-249).
NotFound(w) == w = None

terminate_worker(t, s) ==
    /\ Idle(t)
    /\ LET w == workers[s]
       IN IF NotFound(w)
          THEN /\ Return(t, "terminate", s, None, "false")
               /\ UNCHANGED <<workers, status, agent_service>>
          ELSE \E ok \in BOOLEAN :
                 /\ status' = [status EXCEPT ![w] = CleanupStatus(ok)]
                 /\ agent_service' = [agent_service EXCEPT ![w] = CleanupAgent(w, ok)]
                 /\ workers' = AfterTerminate(s, ok)
                 /\ Return(t, "terminate", s, w,
                           IF ok THEN "true" ELSE "cleanup_failed")
    /\ UNCHANGED <<nobjs, wsession, sub>>
    /\ UNCHANGED <<regvars, appvars>>

\* -------------------------------------------------- WorkerPool.cleanup_all
\* cleanup_all up to the await of gather: the coroutines of the workers
\* tracked now are collected; with none, the pool is cleared at once.
cleanup_all(t) ==
    /\ Idle(t)
    /\ LET snap == {workers[s] : s \in Sessions} \ {None}
       IN IF snap = {}
          THEN /\ Return(t, "cleanup_all", None, None, "done")
          ELSE /\ task' = [task EXCEPT ![t] = [op |-> "cleanup_all", sid |-> None,
                               wid |-> None, pc |-> "gather", snap |-> snap]]
               /\ UNCHANGED event
    /\ UNCHANGED <<workers, nobjs, wsession, status, agent_service, sub>>
    /\ UNCHANGED <<regvars, appvars>>

\* The gathered cleanup coroutines run back to back (none suspends); gather
\* keeps their exceptions (return_exceptions=True).
cleanup_all_gather(t) ==
    /\ task[t].pc = "gather"
    /\ \E ok \in [task[t].snap -> BOOLEAN] :
         /\ status' = [w \in ObjIds |->
                IF w \in task[t].snap THEN CleanupStatus(ok[w]) ELSE status[w]]
         /\ agent_service' = [w \in ObjIds |->
                IF w \in task[t].snap THEN CleanupAgent(w, ok[w]) ELSE agent_service[w]]
    /\ task' = [task EXCEPT ![t].pc = "gathered"]
    /\ UNCHANGED <<workers, nobjs, wsession, sub, event>>
    /\ UNCHANGED <<regvars, appvars>>

\* Mutant of Cleared: only the workers whose cleanup succeeded are dropped.
ClearedUnlessFailed ==
    [s \in Sessions |->
        IF workers[s] # None /\ status[workers[s]] = "terminated"
        THEN None ELSE workers[s]]

\* self.workers.clear() (worker.py:296).
Cleared == [s \in Sessions |-> None]

\* cleanup_all resumes after gather: self.workers.clear().
cleanup_all_clear(t) ==
    /\ task[t].pc = "gathered"
    /\ workers' = Cleared
    /\ Return(t, "cleanup_all", None, None, "done")
    /\ UNCHANGED <<nobjs, wsession, status, agent_service, sub>>
    /\ UNCHANGED <<regvars, appvars>>

\* -------------------------------------------- AgentService.process_message
\* Content blocks the delegate hands to output_callback, by their "type".
BlockTypes == {"text", "tool_use", "other"}
\* Tool results handed to tool_output_callback: well-formed, or one whose
\* translation raises inside the streaming loop.
ToolResults == {"result", "malformed"}

\* _content_block_to_update: the kind of the AgentUpdate, "null" for None.
content_block_to_update(b) ==
    CASE b = "text" -> "thinking"
      [] b = "thinking" -> "thinking"
      [] b = "tool_use" -> "tool_use"
      [] OTHER -> "null"

\* What run_agent puts on output_queue when sampling_loop returns / raises.
Sentinel == "None"
ErrorItem == "error_dict"

Yield(t, u) == [sub EXCEPT ![t].yielded = Append(@, u)]

\* Mutant of FinalUpdate: the last update repeats the opening kind.
FinalUpdateThinking == "thinking"

\* What follows the streaming loop (agent_service.py:200-209): the update
\* yielded after `await agent_task`.
FinalUpdate == "complete"

\* Mutant of StatusAfterSubmission: the status is not reset.
StatusLeftProcessing == "processing"

\* Worker.status when the delegate generator is exhausted (worker.py:86).
StatusAfterSubmission == "ready"

\* Mutant of Accepts: a worker that is processing accepts a second submission.
AcceptsWhileProcessing(w) == status[w] \in {"ready", "processing"}

\* Worker.process_message's guard (worker.py:70).
Accepts(w) == status[w] = "ready"

\* References to a Worker leave spawn_worker only after initialize() succeeded.
Handed(w) == status[w] \notin {"none", "initializing", "failed"}

\* The first step of the generator chain: Worker.process_message's two guards,
\* status = "processing", and AgentService.process_message up to its first
\* yield (the opening Thinking update).
process_message(t, w) ==
    /\ Idle(t)
    /\ Handed(w)
    /\ IF ~Accepts(w)
       THEN /\ Return(t, "process", wsession[w], w, "not_ready")
            /\ UNCHANGED <<status, sub>>
       ELSE IF ~agent_service[w]
       THEN /\ Return(t, "process", wsession[w], w, "no_agent")
            /\ UNCHANGED <<status, sub>>
       ELSE /\ status' = [status EXCEPT ![w] = "processing"]
            /\ task' = [task EXCEPT ![t] = [op |-> "process", sid |-> wsession[w],
                            wid |-> w, pc |-> "y_init", snap |-> {}]]
            /\ sub' = [sub EXCEPT ![t] = [NoSub EXCEPT !.yielded = <<"thinking">>]]
            /\ UNCHANGED event
    /\ UNCHANGED <<workers, nobjs, wsession, agent_service>>
    /\ UNCHANGED <<regvars, appvars>>

\* The consumer asks for the next update: the queues are created, run_agent is
\* started as a task, and the loop suspends in its first poll.
resume_init(t) ==
    /\ task[t].pc = "y_init"
    /\ task' = [task EXCEPT ![t].pc = "poll_out"]
    /\ sub' = [sub EXCEPT ![t].agent = "running"]
    /\ UNCHANGED <<workers, nobjs, wsession, status, agent_service, event>>
    /\ UNCHANGED <<regvars, appvars>>

\* The bounded wait on output_queue ends (agent_service.py:144-170): timeout
\* on an empty queue, else the head item.  `await agent_task` does not suspend
\* after the sentinel: run_agent is finished once it has put it.
poll_output(t) ==
    /\ task[t].pc = "poll_out"
    /\ LET q == sub[t].outq
       IN IF q = <<>>
          THEN /\ task' = [task EXCEPT ![t].pc = "poll_tool"]
               /\ UNCHANGED sub
          ELSE IF Head(q) = Sentinel
          THEN /\ task' = [task EXCEPT ![t].pc = "y_complete"]
               /\ sub' = [sub EXCEPT ![t].outq = Tail(q),
                                     ![t].yielded = Append(@, FinalUpdate)]
          ELSE IF Head(q) = ErrorItem
          THEN /\ task' = [task EXCEPT ![t].pc = "y_error"]
               /\ sub' = [sub EXCEPT ![t].outq = Tail(q),
                                     ![t].yielded = Append(@, "error")]
          ELSE IF content_block_to_update(Head(q)) # "null"
          THEN /\ task' = [task EXCEPT ![t].pc = "y_out"]
               /\ sub' = [sub EXCEPT ![t].outq = Tail(q),
                                     ![t].yielded = Append(@, content_block_to_update(Head(q)))]
          ELSE /\ task' = [task EXCEPT ![t].pc = "poll_tool"]
               /\ sub' = [sub EXCEPT ![t].outq = Tail(q)]
    /\ UNCHANGED <<workers, nobjs, wsession, status, agent_service, event>>
    /\ UNCHANGED <<regvars, appvars>>

\* Resumed after the Error update of the error item: break, `await agent_task`
\* (finished: it put the error item last), then the final update.
resume_error(t) ==
    /\ task[t].pc = "y_error"
    /\ task' = [task EXCEPT ![t].pc = "y_complete"]
    /\ sub' = Yield(t, FinalUpdate)
    /\ UNCHANGED <<workers, nobjs, wsession, status, agent_service, event>>
    /\ UNCHANGED <<regvars, appvars>>

\* Resumed after a content update: on to the bounded wait on tool_output_queue.
resume_output(t) ==
    /\ task[t].pc = "y_out"
    /\ task' = [task EXCEPT ![t].pc = "poll_tool"]
    /\ UNCHANGED <<workers, nobjs, wsession, status, agent_service, sub, event>>
    /\ UNCHANGED <<regvars, appvars>>

\* The tool queue is passed over in this round: on to the sleep.
poll_tool_skipped(t) ==
    /\ task[t].pc = "poll_tool"
    /\ task' = [task EXCEPT ![t].pc = "sleep"]
    /\ UNCHANGED <<workers, nobjs, wsession, status, agent_service, sub, event>>
    /\ UNCHANGED <<regvars, appvars>>

\* The bounded wait on tool_output_queue ends (agent_service.py:172-198).
poll_tool(t) ==
    /\ task[t].pc = "poll_tool"
    /\ LET q == sub[t].toolq
       IN IF q = <<>>
          THEN /\ task' = [task EXCEPT ![t].pc = "sleep"]
               /\ UNCHANGED sub
          ELSE IF Head(q) = "malformed"
          THEN /\ task' = [task EXCEPT ![t].pc = "y_stream_error"]
               /\ sub' = [sub EXCEPT ![t].toolq = Tail(q),
                                     ![t].yielded = Append(@, "error")]
          ELSE /\ task' = [task EXCEPT ![t].pc = "y_tool"]
               /\ sub' = [sub EXCEPT ![t].toolq = Tail(q),
                                     ![t].yielded = Append(@, "tool_result")]
    /\ UNCHANGED <<workers, nobjs, wsession, status, agent_service, event>>
    /\ UNCHANGED <<regvars, appvars>>

\* Resumed after a ToolResult update: the 0.05 s sleep.
resume_tool(t) ==
    /\ task[t].pc = "y_tool"
    /\ task' = [task EXCEPT ![t].pc = "sleep"]
    /\ UNCHANGED <<workers, nobjs, wsession, status, agent_service, sub, event>>
    /\ UNCHANGED <<regvars, appvars>>

\* Resumed after the "Streaming error" update: break, then `await agent_task`,
\* which suspends unless run_agent has finished.
resume_stream_error(t) ==
    /\ task[t].pc = "y_stream_error"
    /\ IF sub[t].agent = "done"
       THEN /\ task' = [task EXCEPT ![t].pc = "y_complete"]
            /\ sub' = Yield(t, FinalUpdate)
       ELSE /\ task' = [task EXCEPT ![t].pc = "await_agent"]
            /\ UNCHANGED sub
    /\ UNCHANGED <<workers, nobjs, wsession, status, agent_service, event>>
    /\ UNCHANGED <<regvars, appvars>>

\* `await agent_task` returns once run_agent has finished.
agent_awaited(t) ==
    /\ task[t].pc = "await_agent"
    /\ sub[t].agent = "done"
    /\ task' = [task EXCEPT ![t].pc = "y_complete"]
    /\ sub' = Yield(t, FinalUpdate)
    /\ UNCHANGED <<workers, nobjs, wsession, status, agent_service, event>>
    /\ UNCHANGED <<regvars, appvars>>

\* The sleep never ends: the loop stays where it is.
sleep_never_done(t) ==
    /\ task[t].pc = "sleep"
    /\ UNCHANGED vars

\* The sleep at the end of a loop round is over: the next round's first poll.
sleep_done(t) ==
    /\ task[t].pc = "sleep"
    /\ task' = [task EXCEPT ![t].pc = "poll_out"]
    /\ UNCHANGED <<workers, nobjs, wsession, status, agent_service, sub, event>>
    /\ UNCHANGED <<regvars, appvars>>

\* Resumed after the final update: AgentService's generator is exhausted,
\* Worker.process_message sets its status and ends, the consumer's loop ends.
\* Nothing reaches Worker.process_message's except branch (worker.py:91-102):
\* AgentService.process_message catches every Exception of its own body
\* (agent_service.py:213-222), and none of the modelled steps raises there.
resume_complete(t) ==
    /\ task[t].pc = "y_complete"
    /\ status' = [status EXCEPT ![task[t].wid] = StatusAfterSubmission]
    /\ sub' = [sub EXCEPT ![t] = NoSub]
    /\ task' = [task EXCEPT ![t] = IdleTask]
    /\ event' = [op |-> "process", sid |-> task[t].sid, wid |-> task[t].wid,
                 res |-> "completed", raised |-> sub[t].raised, again |-> FALSE]
    /\ UNCHANGED <<workers, nobjs, wsession, agent_service>>
    /\ UNCHANGED <<regvars, appvars>>

\* ------------------------------------------------- run_agent and callbacks
Running(t) == sub[t].agent = "running"

\* The delegate calls output_callback / tool_output_callback: the put is
\* wrapped in a task of its own (agent_service.py:98, 102), not run yet.
output_callback(t, b) ==
    /\ Running(t)
    /\ sub[t].emitted < MaxEmit
    /\ sub' = [sub EXCEPT ![t].pending = Append(@, <<"out", b>>),
                          ![t].emitted = @ + 1]
    /\ UNCHANGED <<workers, nobjs, wsession, status, agent_service, task, event>>
    /\ UNCHANGED <<regvars, appvars>>

tool_output_callback(t, r) ==
    /\ Running(t)
    /\ sub[t].emitted < MaxEmit
    /\ sub' = [sub EXCEPT ![t].pending = Append(@, <<"tool", r>>),
                          ![t].emitted = @ + 1]
    /\ UNCHANGED <<workers, nobjs, wsession, status, agent_service, task, event>>
    /\ UNCHANGED <<regvars, appvars>>

\* The oldest put task runs: its item reaches its queue.
put_task(t) ==
    /\ sub[t].pending # <<>>
    /\ LET p == Head(sub[t].pending)
       IN sub' = [sub EXCEPT ![t].pending = Tail(@),
                    ![t].outq = IF p[1] = "out" THEN Append(@, p[2]) ELSE @,
                    ![t].toolq = IF p[1] = "tool" THEN Append(@, p[2]) ELSE @]
    /\ UNCHANGED <<workers, nobjs, wsession, status, agent_service, task, event>>
    /\ UNCHANGED <<regvars, appvars>>

\* sampling_loop returns: run_agent puts the sentinel itself, at once
\* (agent_service.py:130), and finishes.
run_agent_return(t) ==
    /\ Running(t)
    /\ sub' = [sub EXCEPT ![t].outq = Append(@, Sentinel), ![t].agent = "done"]
    /\ UNCHANGED <<workers, nobjs, wsession, status, agent_service, task, event>>
    /\ UNCHANGED <<regvars, appvars>>

\* sampling_loop raises: run_agent puts the error item (agent_service.py:135).
run_agent_raise(t) ==
    /\ Running(t)
    /\ sub' = [sub EXCEPT ![t].outq = Append(@, ErrorItem), ![t].agent = "done",
                          ![t].raised = TRUE]
    /\ UNCHANGED <<workers, nobjs, wsession, status, agent_service, task, event>>
    /\ UNCHANGED <<regvars, appvars>>

\* ------------------------------------------------------------ StreamHandler
\* Every method below takes self._lock first.  Taking a free asyncio.Lock
\* does not suspend; a caller that finds it held waits until it is free.
\* _add_connection and _remove_connection have no await inside the lock, so
\* each is one step.  broadcast_update, send_status, send_error and
\* disconnect_all await once per connection with the lock held.

\* Mutant of Connections: the sockets of every session.
ConnectionsOfAll(s) ==
    UNION {active_connections[x] : x \in DOMAIN active_connections}

\* self.active_connections.get(session_id, set())
Connections(s) ==
    IF s \in DOMAIN active_connections THEN active_connections[s] ELSE {}

\* get_connection_count
get_connection_count(s) == Cardinality(Connections(s))

\* A dict with key s set to v.
SetKey(d, s, v) == [x \in DOMAIN d \cup {s} |-> IF x = s THEN v ELSE d[x]]
\* Mutant of DelKey: the key stays, with an empty set.
EmptyKey(d, s) == [x \in DOMAIN d |-> IF x = s THEN {} ELSE d[x]]

\* `del self.active_connections[session_id]`.
DelKey(d, s) == [x \in DOMAIN d \ {s} |-> d[x]]

InCall(t) == call[t].op # "none"

\* Mutant of add_connection: registration does not wait for the lock, and a
\* broadcast that is going through the session's set visits the new socket.
add_connection_unlocked(t, s, l) ==
    /\ ~InCall(t)
    /\ active_connections' = SetKey(active_connections, s, Connections(s) \cup {l})
    /\ call' = [x \in Tasks |->
                  IF call[x].op = "broadcast" /\ call[x].sid = s /\ l \notin call[x].start
                  THEN [call[x] EXCEPT !.todo = @ \cup {l}]
                  ELSE call[x]]
    /\ last' = NoCall
    /\ UNCHANGED lock
    /\ UNCHANGED <<poolvars, feed, appvars>>

\* _add_connection, as handle_connection calls it (stream_handler.py:40).
\* routers/websocket.py calls register_client and unregister_client instead,
\* which StreamHandler does not define; sockets are modelled as attached
\* through StreamHandler's own methods.
add_connection(t, s, l) ==
    /\ ~InCall(t)
    /\ lock = None
    /\ active_connections' = SetKey(active_connections, s, Connections(s) \cup {l})
    /\ last' = NoCall
    /\ UNCHANGED <<lock, call>>
    /\ UNCHANGED <<poolvars, feed, appvars>>

\* The registry after the body of _remove_connection
\* (stream_handler.py:188-192).
Discarded(s, l) ==
    IF s \notin DOMAIN active_connections THEN active_connections
    ELSE IF active_connections[s] \ {l} = {} THEN DelKey(active_connections, s)
    ELSE SetKey(active_connections, s, active_connections[s] \ {l})

\* _remove_connection: the entry is deleted when its set becomes empty.  The
\* call is recorded with the set it found.
remove_connection(t, s, l) ==
    /\ ~InCall(t)
    /\ lock = None
    /\ active_connections' = Discarded(s, l)
    /\ last' = [NoCall EXCEPT !.op = "remove_connection", !.sid = s,
                              !.start = Connections(s)]
    /\ UNCHANGED <<lock, call>>
    /\ UNCHANGED <<poolvars, feed, appvars>>

\* The sockets whose send raised in a log.
Failed(log) == {log[i].l : i \in {j \in 1..Len(log) : ~log[j].ok}}
\* How many sends to socket l succeeded in a log.
Got(log, l) == Cardinality({i \in 1..Len(log) : log[i].l = l /\ log[i].ok})

\* Mutant of Pruned: the failed connections are collected but not discarded.
NotPruned(conns, failed) == conns

\* broadcast_update's `connections.discard(websocket)` over the collected
\* failures (stream_handler.py:115-117): the set stays in the dict.
Pruned(conns, failed) == conns \ failed

\* The registry when a looping method has gone through its connections.
AfterLoop(op, s, log) ==
    CASE op = "broadcast" ->
            SetKey(active_connections, s, Pruned(Connections(s), Failed(log)))
      [] op = "disconnect_all" ->
            DelKey(active_connections, s)
      [] OTHER -> active_connections

\* Mutant of ReturnsAtOnce: the early return is missing.
NeverReturnsAtOnce(conns) == FALSE

\* `if not connections: return` (stream_handler.py:91-93, 135-136, 162-163).
ReturnsAtOnce(conns) == conns = {}

\* A looping method up to its first send: it takes the lock and reads the
\* session's set.  broadcast_update, send_status and send_error return at
\* once on an empty or absent set; disconnect_all then only deletes the key.
StartLoop(t, op, s, u) ==
    /\ ~InCall(t)
    /\ lock = None
    /\ IF ReturnsAtOnce(Connections(s))
       THEN /\ active_connections' =
                  IF op = "disconnect_all" THEN DelKey(active_connections, s)
                  ELSE active_connections
            /\ last' = [NoCall EXCEPT !.op = op, !.sid = s, !.upd = u]
            /\ UNCHANGED <<lock, call>>
       ELSE /\ lock' = t
            /\ call' = [call EXCEPT ![t] = [op |-> op, sid |-> s, upd |-> u,
                            start |-> Connections(s), todo |-> Connections(s),
                            log |-> <<>>]]
            /\ last' = NoCall
            /\ UNCHANGED active_connections

start_loop(t, op, s, u) ==
    /\ StartLoop(t, op, s, u)
    /\ UNCHANGED <<poolvars, feed, appvars>>

broadcast_update(t, s, u) == start_loop(t, "broadcast", s, u)
send_status(t, s) == start_loop(t, "send_status", s, "status")
send_error(t, s) == start_loop(t, "send_error", s, "error_message")
disconnect_all(t, s) == start_loop(t, "disconnect_all", s, "close")

\* Mutant of Remaining: the loop gives up at the first failed send.
StopAtFailure(todo, l, ok) == IF ok THEN todo \ {l} ELSE {}

\* What the `for websocket in connections` loop still has to visit after
\* socket l: the try/except inside the loop keeps it going.
Remaining(todo, l, ok) == todo \ {l}

\* One await inside the loop ends: send_json (close) to socket l returned or
\* raised.  After the last one the method prunes (broadcast_update), deletes
\* the key (disconnect_all), releases the lock and returns.
Send(t, l, ok) ==
    /\ InCall(t)
    /\ l \in call[t].todo
    /\ LET log == Append(call[t].log, [l |-> l, ok |-> ok])
           todo == Remaining(call[t].todo, l, ok)
       IN IF todo # {}
          THEN /\ call' = [call EXCEPT ![t].todo = todo, ![t].log = log]
               /\ UNCHANGED <<active_connections, lock, last>>
          ELSE /\ active_connections' = AfterLoop(call[t].op, call[t].sid, log)
               /\ lock' = None
               /\ call' = [call EXCEPT ![t] = NoCall]
               /\ last' = [call[t] EXCEPT !.todo = {}, !.log = log]

send_json(t, l) ==
    /\ \E ok \in BOOLEAN : Send(t, l, ok)
    /\ UNCHANGED <<poolvars, feed, appvars>>

\* broadcast_update with its place in the history: the broadcast gets the
\* next number and the set it read is kept.
broadcast_update_recorded(t, s) ==
    /\ delivered.n < MaxBroadcasts
    /\ StartLoop(t, "broadcast", s, "thinking")
    /\ delivered' = [delivered EXCEPT !.n = @ + 1,
                                      !.present = Append(@, Connections(s))]
    /\ UNCHANGED <<poolvars, feed, limit, endpoint, sessions, messages>>

\* One send of the broadcast in progress, with its place in the history.
send_json_recorded(t, l) ==
    /\ call[t].op = "broadcast"
    /\ \E ok \in BOOLEAN :
         /\ Send(t, l, ok)
         /\ delivered' = IF ok THEN [delivered EXCEPT !.heard[l] = @ \cup {delivered.n}]
                         ELSE delivered
    /\ UNCHANGED <<poolvars, feed, limit, endpoint, sessions, messages>>

\* The operations of the registry, called by task t.
RegistryStep(t) ==
    \/ \E s \in Sessions, l \in Sockets : add_connection(t, s, l)
    \/ \E s \in Sessions, l \in Sockets : remove_connection(t, s, l)
    \/ \E s \in Sessions : broadcast_update(t, s, "thinking")
    \/ \E s \in Sessions : send_status(t, s)
    \/ \E s \in Sessions : send_error(t, s)
    \/ \E s \in Sessions : disconnect_all(t, s)
    \/ \E l \in Sockets : send_json(t, l)

\* ------------------------------------------------------- process_and_stream
\* The background task of create_message (routers/sessions.py:153-213): it
\* announces the processing, passes every update of worker.process_message to
\* broadcast_update before it asks for the next one, and reports the end.

\* The positions of a submission at which an update is in the consumer's hands.
YieldPcs == {"y_init", "y_out", "y_tool", "y_error", "y_stream_error", "y_complete"}

\* send_status(session_id, "processing", ...) (sessions.py:156-160).
announce(t, s) ==
    /\ Idle(t)
    /\ feed[t].phase = "idle"
    /\ StartLoop(t, "send_status", s, "status")
    /\ feed' = [feed EXCEPT ![t] = [NoFeed EXCEPT !.phase = "announced", !.sid = s]]
    /\ UNCHANGED <<poolvars, appvars>>

\* The loop asks worker.process_message for its first update and gets it.
submit(t, w) ==
    /\ feed[t].phase = "announced"
    /\ feed[t].fwd = 0
    /\ ~InCall(t)
    /\ wsession[w] = feed[t].sid
    /\ Accepts(w)
    /\ agent_service[w]
    /\ process_message(t, w)

\* The loop asks for the first update and Worker.process_message raises
\* (worker.py:70-74): the except branch calls send_error (sessions.py:206-213).
reject(t, w) ==
    /\ feed[t].phase = "announced"
    /\ feed[t].fwd = 0
    /\ Idle(t)
    /\ Handed(w)
    /\ wsession[w] = feed[t].sid
    /\ ~(Accepts(w) /\ agent_service[w])
    /\ Return(t, "process", wsession[w], w,
              IF ~Accepts(w) THEN "not_ready" ELSE "no_agent")
    /\ StartLoop(t, "send_error", feed[t].sid, "error_message")
    /\ feed' = [feed EXCEPT ![t] = NoFeed]
    /\ UNCHANGED <<workers, nobjs, wsession, status, agent_service, sub>>
    /\ UNCHANGED appvars

\* Whether the consumer has passed on every update it was handed.
Forwarded(t) == feed[t].fwd = Len(sub[t].yielded)

\* Mutant of Latest: the consumer passes on the first update of the submission.
Oldest(t) == sub[t].yielded[1]

\* The `update` the `async for` loop holds: the one yielded last
\* (sessions.py:165).
Latest(t) == sub[t].yielded[Len(sub[t].yielded)]

\* `await stream_handler.broadcast_update(session_id, update)` for the update
\* just yielded (sessions.py:166-167), up to its first send.
forward(t) ==
    /\ task[t].op = "process"
    /\ task[t].pc \in YieldPcs
    /\ ~Forwarded(t)
    /\ LET s == task[t].sid
           n == Len(sub[t].yielded)
           whole == IF n = 1 THEN Connections(s)
                    ELSE feed[t].whole \cap Connections(s)
       IN /\ StartLoop(t, "broadcast", s, Latest(t))
          /\ feed' = [feed EXCEPT
                ![t].fwd = IF Connections(s) = {} THEN n ELSE @,
                ![t].whole = whole,
                ![t].inbox = [l \in Sockets |-> IF l \in whole THEN @[l] ELSE <<>>]]
    /\ UNCHANGED <<poolvars, appvars>>

\* One send of that broadcast ends; after the last one the broadcast returns
\* to the loop.
forward_send(t, l) ==
    /\ task[t].op = "process"
    /\ call[t].op = "broadcast"
    /\ \E ok \in BOOLEAN :
         /\ Send(t, l, ok)
         /\ LET log == Append(call[t].log, [l |-> l, ok |-> ok])
                done == Remaining(call[t].todo, l, ok) = {}
                whole == IF done THEN feed[t].whole \ Failed(log) ELSE feed[t].whole
            IN feed' = [feed EXCEPT
                  ![t].fwd = IF done THEN Len(sub[t].yielded) ELSE @,
                  ![t].whole = whole,
                  ![t].inbox = [x \in Sockets |->
                      IF x \notin whole THEN <<>>
                      ELSE IF x = l /\ ok THEN Append(@[x], call[t].upd)
                      ELSE @[x]]]
    /\ UNCHANGED <<poolvars, appvars>>

\* send_status(session_id, "complete", ...) once the updates are exhausted
\* (sessions.py:199-204).
conclude(t) ==
    /\ Idle(t)
    /\ feed[t].phase = "announced"
    /\ feed[t].fwd > 0
    /\ StartLoop(t, "send_status", feed[t].sid, "status")
    /\ feed' = [feed EXCEPT ![t] = NoFeed]
    /\ UNCHANGED <<poolvars, appvars>>

\* ----------------------------------------------------------- SessionManager
\* The tables are reached through awaits of the database session: a method
\* runs up to its query, and from the query's result to its commit.  A row
\* is seen by the other tasks from its commit on.

\* create_session: the row gets a fresh uuid4 key and the default status.
create_session(t, s) ==
    /\ Idle(t)
    /\ sessions[s] = "none"
    /\ sessions' = [sessions EXCEPT ![s] = "active"]
    /\ Return(t, "create_session", s, None, "session")
    /\ UNCHANGED <<workers, nobjs, wsession, status, agent_service, sub>>
    /\ UNCHANGED <<regvars, limit, delivered, endpoint, messages>>

\* get_session: the status of the row, "none" for None.
get_session(s) == sessions[s]

\* Mutant of Listed: list_sessions does not filter.
ListedAny(st) == TRUE

\* `.where(Session.status != "terminated")` (session_manager.py:76).
Listed(st) == st # "terminated"

\* list_sessions, as the set of the session ids it returns; the order of the
\* list (created_at, descending) is left out.
list_sessions == {s \in Sessions : sessions[s] # "none" /\ Listed(sessions[s])}

\* terminate_session up to the result of get_session: False for no row.
terminate_session(t, s) ==
    /\ Idle(t)
    /\ IF get_session(s) = "none"
       THEN Return(t, "terminate_session", s, None, "false")
       ELSE /\ task' = [task EXCEPT ![t] = [op |-> "terminate_session", sid |-> s,
                            wid |-> None, pc |-> "found", snap |-> {}]]
            /\ UNCHANGED event
    /\ UNCHANGED <<workers, nobjs, wsession, status, agent_service, sub>>
    /\ UNCHANGED <<regvars, appvars>>

\* terminate_session from there on: worker_pool.terminate_worker, which does
\* not suspend, then the status of the row and the commit.  When the cleanup
\* raises, the except branch rolls back and re-raises (session_manager.py:
\* 184-187).  The StreamHandler is not touched.
terminate_session_commit(t) ==
    /\ task[t].op = "terminate_session"
    /\ task[t].pc = "found"
    /\ LET s == task[t].sid
           w == workers[s]
       IN \E ok \in BOOLEAN :
            /\ IF NotFound(w)
               THEN /\ ok
                    /\ UNCHANGED <<workers, status, agent_service>>
               ELSE /\ status' = [status EXCEPT ![w] = CleanupStatus(ok)]
                    /\ agent_service' = [agent_service EXCEPT ![w] = CleanupAgent(w, ok)]
                    /\ workers' = AfterTerminate(s, ok)
            /\ sessions' = IF ok THEN [sessions EXCEPT ![s] = "terminated"] ELSE sessions
            /\ Return(t, "terminate_session", s, w, IF ok THEN "true" ELSE "raised")
    /\ UNCHANGED <<nobjs, wsession, sub>>
    /\ UNCHANGED <<regvars, limit, delivered, endpoint, messages>>

\* create_message up to the result of get_session: ValueError for no row.
\* The status of the row is not looked at.
create_message(t, s) ==
    /\ Idle(t)
    /\ Len(messages) < MaxMessages
    /\ IF get_session(s) = "none"
       THEN Return(t, "create_message", s, None, "not_found")
       ELSE /\ task' = [task EXCEPT ![t] = [op |-> "create_message", sid |-> s,
                            wid |-> None, pc |-> "insert", snap |-> {}]]
            /\ UNCHANGED event
    /\ UNCHANGED <<workers, nobjs, wsession, status, agent_service, sub>>
    /\ UNCHANGED <<regvars, appvars>>

\* The timestamp of the newest row; the table's clock starts at 1.
LastTimestamp ==
    IF messages = <<>> THEN 1 ELSE messages[Len(messages)].timestamp

\* create_message from there on: the INSERT and the commit.  message_id
\* stands for the uuid4 key and numbers the rows as they are created;
\* timestamp is the server default func.now() (database.py:78-83), which has
\* a resolution of one second in SQLite: the clock has either not moved since
\* the row before or moved on.
create_message_commit(t) ==
    /\ task[t].op = "create_message"
    /\ task[t].pc = "insert"
    /\ Len(messages) < MaxMessages
    /\ \E ts \in {LastTimestamp, LastTimestamp + 1} :
         messages' = Append(messages, [message_id |-> Len(messages) + 1,
                                       session_id |-> task[t].sid,
                                       timestamp |-> ts])
    /\ Return(t, "create_message", task[t].sid, None, "message")
    /\ UNCHANGED <<workers, nobjs, wsession, status, agent_service, sub>>
    /\ UNCHANGED <<regvars, limit, delivered, endpoint, sessions>>

\* Mutant of SortsBefore: rows of equal timestamp come out newest first.
SortsBeforeStrict(a, b) == a.timestamp < b.timestamp

\* `.order_by(Message.timestamp)` (session_manager.py:98): whether row a
\* stays ahead of a row b inserted after it.  Rows of equal timestamp come
\* out in rowid order, as SQLite's sorter returns them.
SortsBefore(a, b) == a.timestamp <= b.timestamp

\* The rows in the order of the ORDER BY, computed row by row.
RECURSIVE OrderByTimestamp(_)
OrderByTimestamp(rows) ==
    IF rows = <<>> THEN <<>>
    ELSE LET n == Len(rows)
             r == rows[n]
             sorted == OrderByTimestamp(SubSeq(rows, 1, n - 1))
             k == Cardinality({i \in 1..Len(sorted) : SortsBefore(sorted[i], r)})
         IN SubSeq(sorted, 1, k) \o <<r>> \o SubSeq(sorted, k + 1, Len(sorted))

\* `.where(Message.session_id == session_uuid)` (session_manager.py:97).
OfSession(s, row) == row.session_id = s

\* get_session_messages
get_session_messages(s) ==
    OrderByTimestamp(SelectSeq(messages, LAMBDA row : OfSession(s, row)))

\* --------------------------------------------------------- websocket_stream
\* The methods class StreamHandler defines (stream_handler.py:23-256).
StreamHandlerMethods ==
    {"handle_connection", "broadcast_update", "send_error", "send_status",
     "_add_connection", "_remove_connection", "_handle_client_message",
     "get_connection_count", "get_total_connections", "disconnect_all"}

\* The attribute lookup `stream_handler.<name>` finds a method.
HasMethod(name) == name \in StreamHandlerMethods

\* A client connects to /{session_id}/stream: the route awaits
\* websocket.accept() (websocket.py:36).
websocket_stream(l, s) ==
    /\ endpoint[l].phase = "none"
    /\ \A x \in Sessions : l \notin Connections(x)
    /\ endpoint' = [endpoint EXCEPT ![l].phase = "accepting", ![l].sid = s]
    /\ UNCHANGED <<poolvars, regvars, limit, delivered, sessions, messages>>

\* accept() has returned.  `stream_handler.register_client` (websocket.py:43)
\* raises AttributeError, the except branch logs it, and the finally branch
\* raises AttributeError on `stream_handler.unregister_client` (74): the
\* route ends with the socket in no set.
websocket_stream_accepted(l) ==
    /\ endpoint[l].phase = "accepting"
    /\ ~HasMethod("register_client")
    /\ ~HasMethod("unregister_client")
    /\ endpoint' = [endpoint EXCEPT ![l].phase = "raised"]
    /\ UNCHANGED <<poolvars, regvars, limit, delivered, sessions, messages>>

\* ------------------------------------------ StreamHandler.handle_connection
\* handle_connection (stream_handler.py:31-78) runs in the task of the
\* socket it serves.  A socket delivers what is sent to it in the order in
\* which the sends were started, and a socket on which a send has raised or
\* whose client has gone raises on every later send.  The replies to the
\* client's own ping and subscribe messages are left out.

\* Mutant of handle_connection: the socket is registered and nothing is
\* sent to it.
handle_connection_silent(l, s) ==
    /\ endpoint[l].phase = "none"
    /\ lock = None
    /\ active_connections' = SetKey(active_connections, s, Connections(s) \cup {l})
    /\ last' = NoCall
    /\ endpoint' = [endpoint EXCEPT ![l].phase = "greeting", ![l].sid = s]
    /\ UNCHANGED <<lock, call>>
    /\ UNCHANGED <<poolvars, feed, limit, delivered, sessions, messages>>

\* Up to the first suspension after the lock: _add_connection (40), which
\* waits for the lock and does not suspend once it has it, and the start of
\* the send of the connection message (48-54), which may go through or raise.
handle_connection(l, s) ==
    /\ endpoint[l].phase = "none"
    /\ lock = None
    /\ active_connections' = SetKey(active_connections, s, Connections(s) \cup {l})
    /\ last' = NoCall
    /\ \E ok \in BOOLEAN :
          endpoint' = [endpoint EXCEPT
                          ![l].phase = "greeting", ![l].sid = s, ![l].open = ok,
                          ![l].wire = IF ok THEN Append(@, "connection") ELSE @]
    /\ UNCHANGED <<lock, call>>
    /\ UNCHANGED <<poolvars, feed, limit, delivered, sessions, messages>>

\* The send of the connection message is over: on to the receive loop, or,
\* if it raised, through the except branch (69-72) to the finally branch.
greeting_returned(l) ==
    /\ endpoint[l].phase = "greeting"
    /\ endpoint' = [endpoint EXCEPT ![l].phase =
                        IF endpoint[l].open THEN "receiving" ELSE "closing"]
    /\ UNCHANGED <<poolvars, regvars, limit, delivered, sessions, messages>>

\* The receive loop ends (57-67): receive_text raises because the client
\* has gone, or the task is cancelled and the loop breaks.
receive_ended(l) ==
    /\ endpoint[l].phase = "receiving"
    /\ \E gone \in BOOLEAN :
          endpoint' = [endpoint EXCEPT ![l].phase = "closing",
                                       ![l].open = ~gone]
    /\ UNCHANGED <<poolvars, regvars, limit, delivered, sessions, messages>>

\* The finally branch (73-78): _remove_connection once the lock is free,
\* then handle_connection returns.
handle_connection_finally(l) ==
    /\ endpoint[l].phase = "closing"
    /\ lock = None
    /\ active_connections' = Discarded(endpoint[l].sid, l)
    /\ last' = [NoCall EXCEPT !.op = "remove_connection", !.sid = endpoint[l].sid,
                              !.start = Connections(endpoint[l].sid)]
    /\ endpoint' = [endpoint EXCEPT ![l].phase = "returned"]
    /\ UNCHANGED <<lock, call>>
    /\ UNCHANGED <<poolvars, feed, limit, delivered, sessions, messages>>

\* One send of the broadcast in progress, with what the socket receives.
send_json_wired(t, l) ==
    /\ call[t].op = "broadcast"
    /\ \E ok \in BOOLEAN :
         /\ ok => endpoint[l].open
         /\ Send(t, l, ok)
         /\ delivered' = IF ok THEN [delivered EXCEPT !.heard[l] = @ \cup {delivered.n}]
                         ELSE delivered
         /\ endpoint' = IF ok THEN [endpoint EXCEPT ![l].wire = Append(@, "update")]
                        ELSE endpoint
    /\ UNCHANGED <<poolvars, feed, limit, sessions, messages>>

\* ------------------------------------------------------ create_message route
\* POST /{session_id}/messages (routers/sessions.py:120-216) answers 404 when
\* get_session finds no row, else persists the message through
\* SessionManager.create_message and goes on to the worker.

\* The route from the persisted message on: get_or_create_worker for the
\* session (routers/sessions.py:143-146), whatever the status of its row.
create_message_worker(t, s) ==
    /\ event.op = "create_message"
    /\ event.res = "message"
    /\ event.sid = s
    /\ get_or_create_worker(t, s)

\* ------------------------------------------------- updates and their metadata
\* The keyword arguments with which _content_block_to_update and
\* _tool_result_to_update construct their AgentUpdate
\* (agent_service.py:229-257, 268-289); a dictionary is the set of its keys.
Keywords(x) ==
    IF x.kind = "block"
    THEN CASE x.type = "text" ->
                [update_type |-> "thinking", metadata |-> {"session_id"}]
           [] x.type = "thinking" ->
                [update_type |-> "thinking",
                 metadata |-> {"session_id", "is_thinking"}]
           [] x.type = "tool_use" ->
                [update_type |-> "tool_use",
                 metadata |-> {"session_id", "tool_name", "tool_input"}]
    ELSE [update_type |-> "tool_result",
          metadata |-> {"session_id", "tool_id"}
                       \cup (IF x.error THEN {"error"}
                             ELSE IF x.output THEN {"has_output"} ELSE {})
                       \cup (IF x.base64_image THEN {"has_screenshot"} ELSE {})]

\* AgentUpdate (schemas.py:87-92): the model has the field update_metadata,
\* an empty dictionary by default, and no field or alias `metadata`; a
\* keyword that names no field is ignored.
AgentUpdate(kwargs) ==
    [update_type |-> kwargs.update_type,
     update_metadata |-> IF "update_metadata" \in DOMAIN kwargs
                         THEN kwargs.update_metadata ELSE {}]

\* The message broadcast_update sends for an update (stream_handler.py:96-102).
Message(update) ==
    [type |-> "update", update_type |-> update.update_type,
     metadata |-> update.update_metadata]

\* broadcast_update of the update translated from x, with its place in the
\* history.
broadcast_translated(t, s, x) ==
    /\ delivered.n < MaxBroadcasts
    /\ StartLoop(t, "broadcast", s, AgentUpdate(Keywords(x)).update_type)
    /\ delivered' = [delivered EXCEPT !.n = @ + 1,
                                      !.present = Append(@, Connections(s)),
                                      !.source = x]
    /\ UNCHANGED <<poolvars, feed, limit, endpoint, sessions, messages>>

\* ------------------------------------------------------------ specification
PoolStep(t) ==
    \/ \E s \in Sessions : spawn_worker(t, s)
    \/ \E s \in Sessions : get_or_create_worker(t, s)
    \/ initialize_vm(t)
    \/ initialize_finish(t)
    \/ \E s \in Sessions : terminate_worker(t, s)
    \/ cleanup_all(t)
    \/ cleanup_all_gather(t)
    \/ cleanup_all_clear(t)

\* A submission whose delegate makes no callback before it returns or raises.
SubmitStep(t) ==
    \/ \E w \in ObjIds : process_message(t, w)
    \/ resume_init(t)
    \/ poll_output(t)
    \/ resume_error(t)
    \/ poll_tool(t)
    \/ sleep_done(t)
    \/ resume_complete(t)
    \/ run_agent_return(t)
    \/ run_agent_raise(t)

\* The delegate's callbacks, the put tasks they create, and the branches of
\* the streaming loop that only a callback's item reaches.
CallbackStep(t) ==
    \/ \E b \in BlockTypes : output_callback(t, b)
    \/ \E r \in ToolResults : tool_output_callback(t, r)
    \/ put_task(t)
    \/ resume_output(t)
    \/ resume_tool(t)
    \/ resume_stream_error(t)
    \/ agent_awaited(t)

\* The pool under two concurrent callers.
Next == \E t \in Tasks : PoolStep(t)

Spec == Init /\ [][Next]_vars

\* The pool under one caller that issues its calls one after the other.
NextSeq == PoolStep(1)

SpecSeq == Init /\ [][NextSeq]_vars

\* The session whose worker the worker-level specifications drive.
TheSession == CHOOSE s \in Sessions : TRUE

\* One session under two concurrent callers that spawn, submit and terminate.
NextWorker ==
    \E t \in Tasks :
        \/ spawn_worker(t, TheSession)
        \/ initialize_vm(t)
        \/ initialize_finish(t)
        \/ terminate_worker(t, TheSession)
        \/ SubmitStep(t)

SpecWorker == Init /\ [][NextWorker]_vars

\* One session's worker: caller 1 spawns it and drives submissions through
\* every delegate behaviour while caller 2 may terminate it.
NextMux ==
    \/ spawn_worker(1, TheSession)
    \/ initialize_vm(1)
    \/ initialize_finish(1)
    \/ SubmitStep(1)
    \/ CallbackStep(1)
    \/ terminate_worker(2, TheSession)

SpecMux == Init /\ [][NextMux]_vars

\* The steps of one submission that the event loop takes by itself: the
\* consumer resumes the generator after each update, every bounded wait and
\* the sleep end, and a put task created by a callback runs.
ConsumerStep(t) ==
    \/ resume_init(t)
    \/ poll_output(t)
    \/ resume_error(t)
    \/ resume_output(t)
    \/ poll_tool(t)
    \/ resume_tool(t)
    \/ resume_stream_error(t)
    \/ agent_awaited(t)
    \/ sleep_done(t)
    \/ resume_complete(t)

\* One worker and its submissions, nobody else acting on the worker.
NextLoop ==
    \/ spawn_worker(1, TheSession)
    \/ initialize_vm(1)
    \/ initialize_finish(1)
    \/ SubmitStep(1)
    \/ CallbackStep(1)

SpecLoop == Init /\ [][NextLoop]_vars

\* The same under the event loop's scheduling: a task that is ready to run
\* is run, a timer that has expired fires.  When the delegate calls back,
\* returns or raises is left open.
SpecLoopFair ==
    /\ SpecLoop
    /\ WF_vars(ConsumerStep(1))
    /\ WF_vars(put_task(1))

\* The registry under two concurrent callers.
NextRegistry == \E t \in Tasks : RegistryStep(t)

SpecRegistry == Init /\ [][NextRegistry]_vars

\* One session's set: caller 1 broadcasts, one update after the other, while
\* caller 2 registers and removes sockets.
NextDelivery ==
    \/ broadcast_update_recorded(1, TheSession)
    \/ \E l \in Sockets : send_json_recorded(1, l)
    \/ \E l \in Sockets : add_connection(2, TheSession, l)
    \/ \E l \in Sockets : remove_connection(2, TheSession, l)

SpecDelivery == Init /\ [][NextDelivery]_vars

\* One session's listeners, each served by its handle_connection, while
\* caller 1 broadcasts one update after the other.
NextHandle ==
    \/ \E l \in Sockets : handle_connection(l, TheSession)
    \/ \E l \in Sockets : greeting_returned(l)
    \/ \E l \in Sockets : receive_ended(l)
    \/ \E l \in Sockets : handle_connection_finally(l)
    \/ broadcast_update_recorded(1, TheSession)
    \/ \E l \in Sockets : send_json_wired(1, l)

SpecHandle == Init /\ [][NextHandle]_vars

\* One session's set: caller 1 broadcasts the update of whatever the
\* delegate hands over, while caller 2 registers and removes sockets.
NextMeta ==
    \/ \E x \in Inputs : broadcast_translated(1, TheSession, x)
    \/ \E l \in Sockets : send_json_recorded(1, l)
    \/ \E l \in Sockets : add_connection(2, TheSession, l)
    \/ \E l \in Sockets : remove_connection(2, TheSession, l)

SpecMeta == Init /\ [][NextMeta]_vars

\* The pool under one caller that assigns workers to sessions and terminates
\* them, with room for a worker per session.
SpecAssign == InitRoomy /\ [][NextSeq]_vars

\* The tables under two concurrent callers.
NextDb ==
    \E t \in Tasks :
        \/ \E s \in Sessions : create_session(t, s)
        \/ \E s \in Sessions : terminate_session(t, s)
        \/ terminate_session_commit(t)
        \/ \E s \in Sessions : create_message(t, s)
        \/ create_message_commit(t)

SpecDb == Init /\ [][NextDb]_vars

\* One session: caller 1 creates it, gives it a worker and terminates it,
\* while clients connect to the stream route and caller 2 runs
\* handle_connection for sockets handed to the StreamHandler directly.
NextRoutes ==
    \/ create_session(1, TheSession)
    \/ get_or_create_worker(1, TheSession)
    \/ initialize_vm(1)
    \/ initialize_finish(1)
    \/ terminate_session(1, TheSession)
    \/ terminate_session_commit(1)
    \/ \E l \in Sockets : websocket_stream(l, TheSession)
    \/ \E l \in Sockets : websocket_stream_accepted(l)
    \/ \E l \in Sockets : endpoint[l].phase = "none" /\ add_connection(2, TheSession, l)
    \/ \E l \in Sockets : remove_connection(2, TheSession, l)

SpecRoutes == Init /\ [][NextRoutes]_vars

\* One caller at a time: sessions are created, messages are posted to them
\* through the create_message route, and sessions are terminated.
NextSubmit ==
    \/ \E s \in Sessions : create_session(1, s)
    \/ \E s \in Sessions : create_message(1, s)
    \/ create_message_commit(1)
    \/ \E s \in Sessions : create_message_worker(1, s)
    \/ initialize_vm(1)
    \/ initialize_finish(1)
    \/ \E s \in Sessions : terminate_session(1, s)
    \/ terminate_session_commit(1)

SpecSubmit == Init /\ [][NextSubmit]_vars

\* One session: caller 1 spawns the worker and runs process_and_stream on it,
\* time after time, while caller 2 connects and disconnects sockets and may
\* terminate the worker.
NextStream ==
    \/ spawn_worker(1, TheSession)
    \/ initialize_vm(1)
    \/ initialize_finish(1)
    \/ announce(1, TheSession)
    \/ \E l \in Sockets : call[1].op # "broadcast" /\ send_json(1, l)
    \/ \E w \in ObjIds : submit(1, w)
    \/ \E w \in ObjIds : reject(1, w)
    \/ forward(1)
    \/ \E l \in Sockets : forward_send(1, l)
    \/ Forwarded(1) /\ ~InCall(1) /\ resume_init(1)
    \/ Forwarded(1) /\ ~InCall(1) /\ resume_error(1)
    \/ Forwarded(1) /\ ~InCall(1) /\ resume_complete(1)
    \/ poll_output(1)
    \/ poll_tool(1)
    \/ sleep_done(1)
    \/ run_agent_return(1)
    \/ run_agent_raise(1)
    \/ conclude(1)
    \/ \E l \in Sockets : add_connection(2, TheSession, l)
    \/ \E l \in Sockets : remove_connection(2, TheSession, l)
    \/ terminate_worker(2, TheSession)

SpecStream == Init /\ [][NextStream]_vars

\* ==================================================================== claims
\* A worker whose initialize() succeeded and that no cleanup has touched.
Live(w) == status[w] \in {"ready", "processing", "error"}
LiveWorkersOf(s) == {w \in ObjIds : wsession[w] = s /\ Live(w)}

\* C1: under every interleaving of spawn_worker and terminate_worker calls,
\* at most one initialized, un-terminated Worker exists per session.
OneWorkerPerSession == \A s \in Sessions : Cardinality(LiveWorkersOf(s)) <= 1

\* C2: the number of workers the pool tracks never exceeds max_workers.
CapacityBound == TrackedCount <= max_workers

\* C3: spawn_worker for a session without a worker, called when the pool
\* tracks max_workers workers, fails with the capacity error, constructs no
\* Worker and leaves the tracked set (and every worker) as it was.
CapacityRefusal ==
    [][\A t \in Tasks, s \in Sessions :
         (spawn_worker(t, s) /\ workers[s] = None /\ TrackedCount >= max_workers)
         => /\ event'.op = "spawn" /\ event'.res = "capacity"
            /\ nobjs' = nobjs
            /\ workers' = workers
            /\ status' = status]_vars

\* C3 witness: a spawn was refused for capacity with the pool exactly full.
CapacityRefusalSeen ==
    /\ event.op = "spawn" /\ event.res = "capacity"
    /\ workers[event.sid] = None
    /\ TrackedCount = max_workers

\* C4: for calls issued one after the other, two successive spawn_worker
\* calls of a session with no terminate in between return the same worker_id
\* and initialize() runs once: a call on a tracked session returns the tracked
\* worker and constructs and initializes nothing; the tracked worker of a
\* session changes only by being removed by terminate_worker or cleanup_all;
\* and a call that directly follows a successful one returns the same id.
IdempotentSpawn ==
    [][\A t \in Tasks, s \in Sessions :
         /\ (spawn_worker(t, s) /\ workers[s] # None)
            => /\ SpawnReturned(event', s)
               /\ event'.wid = workers[s]
               /\ nobjs' = nobjs
               /\ status' = status
               /\ workers' = workers
               /\ task'[t] = IdleTask
         /\ (spawn_worker(t, s) /\ SpawnReturned(event, s))
            => /\ SpawnReturned(event', s)
               /\ event'.wid = event.wid
         /\ (workers[s] # None /\ workers'[s] # workers[s])
            => /\ workers'[s] = None
               /\ \E u \in Tasks : terminate_worker(u, s) \/ cleanup_all_clear(u)]_vars

\* C4 witness: two successive spawn_worker calls of one session have returned.
SpawnedTwice == event.again /\ status[event.wid] = "ready"

\* C5: when initialize() fails inside spawn_worker the error reaches the
\* caller, the worker's status is failed, and no step of that call has
\* changed the pool's tracked set, so the failed worker is tracked nowhere.
InitFailureLeavesNoTrace ==
    /\ [][\A t \in Tasks :
            /\ ((initialize_finish(t) \/ initialize_vm(t))
                   /\ task'[t] = IdleTask /\ status'[task[t].wid] # "ready")
               => /\ status'[task[t].wid] = "failed"
                  /\ event'.op = "spawn" /\ event'.res \in InitErrors
                  /\ event'.wid = task[t].wid
                  /\ workers' = workers
            /\ (initialize_vm(t) \/ \E s \in Sessions : spawn_worker(t, s))
               => workers' = workers]_vars
    /\ [](\A s \in Sessions : workers[s] # None => status[workers[s]] # "failed")

\* C5 witness: a spawn_worker call ended with the initialization error.
InitFailureSeen ==
    /\ event.op = "spawn" /\ event.res = "init_failed"
    /\ status[event.wid] = "failed"
    /\ \A s \in Sessions : workers[s] # event.wid

\* C6: after terminate_worker whose cleanup failed, the failure has reached
\* the caller and the pool no longer tracks a worker for that session.
CleanupFailureStillRemoves ==
    (event.op = "terminate" /\ event.res = "cleanup_failed")
    => workers[event.sid] = None

\* C7: terminated is terminal: a worker whose status is terminated keeps that
\* status, also when a submission that was in flight at the termination ends.
TerminatedIsTerminal ==
    [][\A w \in ObjIds : status[w] = "terminated" => status'[w] = "terminated"]_vars

\* The callers that drive a submission on worker w.
Submitters(w) == {t \in Tasks : task[t].op = "process" /\ task[t].wid = w}

\* C8: process_message on a worker whose status is not ready is rejected with
\* the not-ready error and changes no status and starts no submission; so at
\* most one submission is active on a worker at any time.
OnlyReadyAccepts ==
    /\ [][\A t \in Tasks, w \in ObjIds :
            (process_message(t, w) /\ status[w] # "ready")
            => /\ event'.op = "process" /\ event'.res = "not_ready"
               /\ event'.wid = w
               /\ status' = status
               /\ sub' = sub
               /\ task'[t] = IdleTask]_vars
    /\ [](\A w \in ObjIds : Cardinality(Submitters(w)) <= 1)

\* C8 witness: a submission was rejected as not ready while another caller's
\* submission is active on the same worker.
RejectedWhileProcessing ==
    /\ event.op = "process" /\ event.res = "not_ready"
    /\ status[event.wid] = "processing"
    /\ Submitters(event.wid) # {}

\* Number of Error-kind updates in a sequence of update kinds.
ErrorCount(seq) == Cardinality({i \in 1..Len(seq) : seq[i] = "error"})

\* C9: when a submission whose delegate raised completes, the worker's status
\* is ready, exactly one Error update was yielded for it, and the caller gets
\* a normal completion, not an exception.
SelfHealing ==
    [][\A t \in Tasks :
         (resume_complete(t) /\ sub[t].raised)
         => /\ status'[task[t].wid] = "ready"
            /\ ErrorCount(sub[t].yielded) = 1
            /\ event'.op = "process" /\ event'.res = "completed"]_vars

\* C9 witness: a submission whose delegate raised has completed.
RaisedSubmissionCompleted ==
    /\ event.op = "process" /\ event.res = "completed" /\ event.raised
    /\ status[event.wid] = "ready"

\* C10: an Error update is the last update of its submission: nothing, in
\* particular no Complete update, is yielded after it.
ErrorIsLast ==
    \A t \in Tasks : \A i \in 1..Len(sub[t].yielded) :
        sub[t].yielded[i] = "error" => i = Len(sub[t].yielded)

\* C12: a failure to acquire the display (VM or VNC) during initialize() is
\* not fatal: the spawn_worker call it happens in still ends with the worker
\* ready and registered for its session.
DisplayFailureNonFatal ==
    [][\A t \in Tasks :
         ((initialize_vm(t) \/ initialize_finish(t))
             /\ task'[t] = IdleTask /\ event'.res = "display_failed")
         => /\ status'[task[t].wid] = "ready"
            /\ workers'[task[t].sid] = task[t].wid]_vars

\* Worker.cleanup runs on worker w in this step.
CleanupRuns(w) ==
    \E t \in Tasks :
        \/ \E s \in Sessions : terminate_worker(t, s) /\ workers[s] = w
        \/ cleanup_all_gather(t) /\ w \in task[t].snap

\* C13: cleanup on a worker whose status is terminated is a no-op: every
\* value the status takes during the call is terminated, it is terminated
\* afterwards, and the agent service is not released again.
CleanupOfTerminatedIsNoOp ==
    [][\A w \in ObjIds :
         (status[w] = "terminated" /\ CleanupRuns(w))
         => /\ status'[w] = "terminated"
            /\ agent_service'[w] = agent_service[w]
            /\ \A ok \in BOOLEAN :
                  status'[w] = CleanupStatus(ok)
                  => \A i \in 1..Len(CleanupWrites(ok)) :
                        CleanupWrites(ok)[i] = "terminated"]_vars

\* C14: terminate_worker for a session without a tracked worker returns
\* false and changes neither the tracked set nor any worker.
TerminateAbsentIsNoOp ==
    [][\A t \in Tasks, s \in Sessions :
         (terminate_worker(t, s) /\ workers[s] = None)
         => /\ event'.op = "terminate" /\ event'.res = "false"
            /\ event'.sid = s
            /\ workers' = workers
            /\ status' = status
            /\ agent_service' = agent_service]_vars

\* C14 witness: terminate_worker returned false for an untracked session
\* while the pool tracks a worker of another session.
TerminateAbsentSeen ==
    /\ event.op = "terminate" /\ event.res = "false"
    /\ workers[event.sid] = None
    /\ TrackedCount > 0

\* C15: for calls issued one after the other, a terminate_worker that returns
\* true removes exactly one worker from the tracked set, which leaves the pool
\* below capacity, and the spawn_worker that follows for a session without a
\* worker is not refused: it constructs a Worker.
TerminateFreesSlot ==
    [][\A t \in Tasks, s \in Sessions :
         /\ (terminate_worker(t, s) /\ event'.res = "true")
            => /\ TrackedCount' = TrackedCount - 1
               /\ workers'[s] = None
               /\ TrackedCount' < max_workers
         /\ (spawn_worker(t, s) /\ workers[s] = None
                /\ event.op = "terminate" /\ event.res = "true")
            => /\ task'[t].pc = "init_vm"
               /\ nobjs' = nobjs + 1]_vars

\* C15 witness: with the pool filled to capacity by other sessions' workers,
\* one of them was terminated and the spawn_worker for a further session then
\* succeeded.
SlotReused ==
    /\ event.op = "spawn" /\ event.res = "worker"
    /\ workers[event.sid] = event.wid
    /\ TrackedCount = max_workers
    /\ \E w \in ObjIds :
          /\ status[w] = "terminated"
          /\ wsession[w] # event.sid
          /\ workers[wsession[w]] = None
          /\ w < event.wid

\* C16: cleanup_all collects every worker tracked when it starts, runs the
\* cleanup of each of them whatever the outcome of the others, never raises,
\* and tracks no worker when it returns.
ShutdownAll ==
    [][\A t \in Tasks :
         /\ (cleanup_all(t) /\ task'[t] # IdleTask)
            => task'[t].snap = {workers[s] : s \in Sessions} \ {None}
         /\ cleanup_all_gather(t)
            => \A w \in task[t].snap : status'[w] \in {"terminating", "terminated"}
         /\ (cleanup_all_clear(t) \/ (cleanup_all(t) /\ task'[t] = IdleTask))
            => /\ event'.op = "cleanup_all" /\ event'.res = "done"
               /\ TrackedCount' = 0]_vars

\* C16 witness: cleanup_all has returned after a gather in which the cleanup
\* of one worker failed and the cleanup of another succeeded.
ShutdownSurvivedFailure ==
    /\ event.op = "cleanup_all" /\ event.res = "done"
    /\ TrackedCount = 0
    /\ \E w1, w2 \in ObjIds :
          /\ status[w1] = "terminating"
          /\ status[w2] = "terminated"
          /\ wsession[w1] # wsession[w2]

\* The sends of task t's call as they stand after a step.
SentLog(t) == IF call'[t].op = "none" THEN last'.log ELSE call'[t].log

\* In this step task t's broadcast_update delivers its update to socket l.
Delivers(t, l) ==
    /\ call[t].op = "broadcast"
    /\ send_json(t, l)
    /\ SentLog(t)[Len(SentLog(t))] = [l |-> l, ok |-> TRUE]

\* C17: broadcast isolation: whatever registrations, removals and broadcasts
\* came before, an update broadcast on a session is delivered only to sockets
\* that are registered for that session at the moment of the delivery, never
\* to a socket registered only for another session.
BroadcastIsolation ==
    [][\A t \in Tasks, l \in Sockets :
         Delivers(t, l)
         => /\ call[t].sid \in DOMAIN active_connections
            /\ l \in active_connections[call[t].sid]]_vars

\* C17 witness: a broadcast on one session reached a socket of that session
\* while another socket, registered only for another session, got nothing.
IsolationSeen ==
    /\ last.op = "broadcast"
    /\ \E l1, l2 \in Sockets, b \in DOMAIN active_connections :
          /\ b # last.sid
          /\ Got(last.log, l1) = 1
          /\ l2 \in active_connections[b]
          /\ l2 \notin last.start
          /\ Got(last.log, l2) = 0

\* C18: invariant R1: no session key of the registry maps to an empty set.
NoEmptyEntry ==
    \A s \in DOMAIN active_connections : active_connections[s] # {}

\* C19: lazy pruning: when a broadcast_update returns, every socket whose
\* send failed in it is out of the session's set and get_connection_count is
\* lower by their number, with no _remove_connection call.
LazyPruning ==
    [][\A t \in Tasks, s \in Sessions :
         (call[t].op = "broadcast" /\ call[t].sid = s /\ call'[t].op = "none")
         => /\ \A l \in Failed(last'.log) :
                  s \in DOMAIN active_connections' => l \notin active_connections'[s]
            /\ get_connection_count(s)' =
                  get_connection_count(s) - Cardinality(Failed(last'.log))]_vars

\* C19 witness: a broadcast in which a send failed has returned and the
\* session's count is lower by the failed sockets.
PrunedSeen ==
    /\ last.op = "broadcast"
    /\ Failed(last.log) # {}
    /\ get_connection_count(last.sid) =
          Cardinality(last.start) - Cardinality(Failed(last.log))

\* C20: a failed send does not stop a broadcast: every socket that was in the
\* session's set when the broadcast began and whose send did not fail has
\* received the update exactly once when it returns, and never more than
\* once on the way.
BroadcastContinues ==
    /\ last.op = "broadcast"
       => \A l \in last.start \ Failed(last.log) : Got(last.log, l) = 1
    /\ \A t \in Tasks, l \in Sockets : Got(call[t].log, l) <= 1

\* C20 witness: in a broadcast that has returned, a send failed and a later
\* send to another socket succeeded.
DeliveredAfterFailure ==
    /\ last.op = "broadcast"
    /\ \E i, j \in 1..Len(last.log) :
          i < j /\ ~last.log[i].ok /\ last.log[j].ok

\* C11: a submission in which the multiplexer yields its opening Thinking
\* update and then reads the sentinel (two updates in all) leaves the worker
\* ready, and every socket that was in the session's set at each broadcast of
\* the submission has been sent exactly the Thinking update and then the
\* Complete update.
ThinkingThenComplete ==
    [][\A t \in Tasks :
         (resume_complete(t) /\ Len(sub[t].yielded) = 2 /\ feed[t].phase = "announced")
         => /\ status'[task[t].wid] = "ready"
            /\ feed[t].fwd = 2
            /\ \A l \in feed[t].whole :
                  feed[t].inbox[l] = <<"thinking", "complete">>]_vars

\* C11 witness: such a submission has completed with a socket attached
\* throughout.
ThinkingThenCompleteSeen ==
    /\ event.op = "process" /\ event.res = "completed" /\ ~event.raised
    /\ status[event.wid] = "ready"
    /\ \E t \in Tasks, l \in Sockets :
          /\ feed[t].fwd = 2
          /\ l \in feed[t].whole
          /\ feed[t].inbox[l] = <<"thinking", "complete">>

\* C21: the registry never buffers: the update of a broadcast is sent only to
\* sockets that were in the session's set when that broadcast read it.  A
\* socket registered after a broadcast has returned is never sent its update,
\* and the update of a broadcast that found no socket is sent to nobody, at
\* any later time.
NeverBuffers ==
    \A l \in Sockets : \A b \in delivered.heard[l] : l \in delivered.present[b]

\* C21 witness: the first broadcast found no socket; a socket registered
\* after it had returned was sent the second broadcast's update and not the
\* first's.
LateListenerSeen ==
    /\ delivered.n = 2
    /\ call[1] = NoCall
    /\ delivered.present[1] = {}
    /\ \E l \in Sockets :
          /\ l \in Connections(TheSession)
          /\ delivered.heard[l] = {2}

\* Whether sequence a is the beginning of sequence b.
IsPrefix(a, b) == Len(a) <= Len(b) /\ a = SubSeq(b, 1, Len(a))

\* C22: FIFO within a submission: a socket that stays in the session's set
\* throughout is sent the updates in exactly the order the multiplexer
\* yielded them: while the submission runs, what it has been sent is the
\* beginning of the yielded sequence, and all of it once every update
\* yielded so far is passed on.
FifoDelivery ==
    \A t \in Tasks : task[t].op = "process" =>
        \A l \in feed[t].whole :
            /\ IsPrefix(feed[t].inbox[l], sub[t].yielded)
            /\ (Forwarded(t) /\ ~InCall(t)) => feed[t].inbox[l] = sub[t].yielded

\* C22 witness: a submission of three updates has been passed on in full to
\* a socket that stayed attached.
FifoSeen ==
    \E t \in Tasks, l \in Sockets :
        /\ task[t].op = "process"
        /\ l \in feed[t].whole
        /\ feed[t].fwd = 3
        /\ feed[t].inbox[l] = <<"thinking", "error", "complete">>

\* C23: the registry holds its lock over no suspending operation: no task
\* is suspended in a send (close) of broadcast_update, send_status,
\* send_error or disconnect_all with the lock taken.
NoLockAcrossAwait ==
    \A t \in Tasks : (InCall(t) /\ call[t].todo # {}) => lock = None

\* C24: when _remove_connection removes the last socket of a session,
\* get_connection_count of the session is 0 and the registry has no entry
\* for it.
LastRemovalDropsEntry ==
    [][\A t \in Tasks, s \in Sessions, l \in Sockets :
         (/\ s \in DOMAIN active_connections
          /\ active_connections[s] = {l}
          /\ remove_connection(t, s, l))
         => /\ Cardinality(IF s \in DOMAIN active_connections'
                           THEN active_connections'[s] ELSE {}) = 0
            /\ s \notin DOMAIN active_connections']_vars

\* C24 witness: _remove_connection has found one socket in a session's set
\* and removed it; the session has no entry and its count is 0.
LastRemovalSeen ==
    /\ last.op = "remove_connection"
    /\ Cardinality(last.start) = 1
    /\ last.sid \notin DOMAIN active_connections
    /\ get_connection_count(last.sid) = 0

\* C25: broadcast_update on a session with no socket returns at once without
\* an error, sends nothing and leaves the registry, the sets of the other
\* sessions included, as it was.
EmptyBroadcastIsNoOp ==
    [][\A t \in Tasks, s \in Sessions :
         (/\ s \notin DOMAIN active_connections \/ active_connections[s] = {}
          /\ broadcast_update(t, s, "thinking"))
         => /\ active_connections' = active_connections
            /\ call'[t] = NoCall
            /\ lock' = lock
            /\ last'.op = "broadcast" /\ last'.log = <<>>]_vars

\* C25 witness: a broadcast on a session without sockets has returned,
\* having sent nothing, while another session has its sockets.
EmptyBroadcastSeen ==
    /\ last.op = "broadcast"
    /\ last.start = {}
    /\ last.log = <<>>
    /\ Connections(last.sid) = {}
    /\ \E s \in DOMAIN active_connections : active_connections[s] # {}

\* C26: a socket that connects to the stream route of a session is put in
\* the session's set by the route: when the route has run past accept(), the
\* socket is in active_connections under that session.
RouteRegisters ==
    [][\A l \in Sockets, s \in Sessions :
         (websocket_stream_accepted(l) /\ endpoint[l].sid = s)
         => /\ s \in DOMAIN active_connections'
            /\ l \in active_connections'[s]]_vars

\* C27: terminate_session applies disconnect_all: when it returns True the
\* session has no entry in the registry (every socket was closed and the
\* entry dropped).
TerminationDisconnects ==
    [][\A t \in Tasks, s \in Sessions :
         (terminate_session_commit(t) /\ task[t].sid = s /\ event'.res = "true")
         => s \notin DOMAIN active_connections']_vars

\* C28: workers are uniquely assigned: the workers tracked for distinct
\* sessions are distinct (worker_id is the identity of the Worker object),
\* and get_or_create_worker for a session that has a worker returns that
\* worker and constructs none.
UniqueAssignment ==
    /\ [](\A s1, s2 \in Sessions :
            (s1 # s2 /\ workers[s1] # None /\ workers[s2] # None)
            => workers[s1] # workers[s2])
    /\ [][\A s \in Sessions :
            (get_or_create_worker(1, s) /\ workers[s] # None)
            => /\ event'.res = "worker"
               /\ event'.wid = workers[s]
               /\ workers' = workers
               /\ nobjs' = nobjs]_vars

\* C28 witness: every session has been given a worker, all distinct, and a
\* further get_or_create_worker has returned the worker its session had.
AssignedAll ==
    /\ \A s \in Sessions : workers[s] # None
    /\ Cardinality({workers[s] : s \in Sessions}) = NumSessions
    /\ event.op = "spawn" /\ event.res = "worker" /\ event.again
    /\ event.wid = workers[event.sid]

Ids(rows) == [i \in 1..Len(rows) |-> rows[i].message_id]

NothingLeftBehind ==
    \A t \in Tasks :
        (/\ task[t].pc = "y_complete"
         /\ \A i \in 1..Len(sub[t].yielded) : sub[t].yielded[i] # "error")
        => /\ sub[t].pending = <<>>
           /\ sub[t].outq = <<>>
           /\ sub[t].toolq = <<>>

\* C33: if the delegate finishes or fails, the submission terminates: the
\* loop exits, the final update is forwarded and the worker's status is
\* ready again; and a bounded wait that times out on either queue forwards
\* nothing and goes on to the next wait of the loop, never out of it.
SubmissionTerminates ==
    /\ [][\A t \in Tasks :
            /\ (/\ task[t].pc = "poll_out"
                /\ sub[t].outq = <<>>
                /\ task'[t] # task[t])
               => /\ task'[t].pc = "poll_tool"
                  /\ sub'[t].yielded = sub[t].yielded
            /\ (/\ task[t].pc = "poll_tool"
                /\ sub[t].toolq = <<>>
                /\ task'[t] # task[t])
               => /\ task'[t].pc = "sleep"
                  /\ sub'[t].yielded = sub[t].yielded
            /\ (task[t].pc = "y_complete" /\ task'[t] # task[t])
               => sub[t].yielded[Len(sub[t].yielded)] = "complete"]_vars
    /\ (task[1].op = "process" /\ sub[1].agent = "done")
          ~> (/\ task[1].pc = "idle"
              /\ event.op = "process"
              /\ event.res = "completed"
              /\ status[event.wid] = "ready")

\* C33 witness: the wait on the output queue timed out, the delegate
\* finished during the wait on the tool queue, which timed out too, and the
\* loop is in its sleep with the sentinel still to be read.
FinishedDuringTimeouts ==
    /\ task[1].pc = "sleep"
    /\ sub[1].agent = "done"
    /\ sub[1].outq = <<Sentinel>>
    /\ sub[1].yielded = <<"thinking">>
    /\ sub[1].emitted = 0

\* C34: neither queue starves the other.  Every round of the loop waits on
\* the output queue and then on the tool queue before it sleeps and starts
\* over; the wait on the tool queue takes and forwards the head item if
\* there is one, whether or not the output queue had anything, and the wait
\* on the output queue takes its head item if there is one (forwarding it
\* unless it translates to nothing), whatever the tool queue holds.
NoStarvation ==
    [][\A t \in Tasks :
          LET pc == task[t].pc
              moved == task'[t] # task[t]
          IN /\ (pc = "poll_tool" /\ sub[t].toolq # <<>> /\ moved)
                => /\ sub'[t].toolq = Tail(sub[t].toolq)
                   /\ sub'[t].yielded =
                         Append(sub[t].yielded,
                                IF Head(sub[t].toolq) = "malformed"
                                THEN "error" ELSE "tool_result")
             /\ (pc = "poll_out" /\ sub[t].outq # <<>> /\ moved)
                => /\ sub'[t].outq = Tail(sub[t].outq)
                   /\ Head(sub[t].outq) \in {"text", "tool_use"}
                      => sub'[t].yielded =
                            Append(sub[t].yielded,
                                   IF Head(sub[t].outq) = "text"
                                   THEN "thinking" ELSE "tool_use")
             /\ (pc \in {"poll_out", "y_out"} /\ moved)
                => task'[t].pc \in {"y_out", "poll_tool", "y_complete", "y_error"}
             /\ (pc \in {"poll_tool", "y_tool"} /\ moved)
                => task'[t].pc \in {"y_tool", "sleep", "y_stream_error"}
             /\ (pc = "sleep" /\ moved) => task'[t].pc = "poll_out"]_vars

\* C34 witness: a tool result has been forwarded in a round in which the
\* output queue had nothing, the delegate still running.
ToolForwardedWhileOutputIdle ==
    /\ task[1].pc = "y_tool"
    /\ Running(1)
    /\ sub[1].outq = <<>>
    /\ sub[1].pending = <<>>
    /\ sub[1].yielded = <<"thinking", "tool_result">>

\* C35: sessions do not wait for one another.  While a caller is suspended
\* in a send to a listener of one session, which may never return, another
\* caller's registration, removal and broadcast on a different session can
\* run.
CrossSessionIndependence ==
    \A t \in Tasks, u \in Tasks, b \in Sessions, l \in Sockets :
        (InCall(t) /\ u # t /\ call[t].sid # b)
        => /\ ENABLED add_connection(u, b, l)
           /\ ENABLED remove_connection(u, b, l)
           /\ ENABLED broadcast_update(u, b, "thinking")

\* C36: when send_status or send_error returns, no listener whose delivery
\* failed during the call is left in the session's set, as after
\* broadcast_update.
StatusAndErrorPrune ==
    last.op \in {"send_status", "send_error"}
    => Failed(last.log) \cap Connections(last.sid) = {}

\* C37: a listener served by handle_connection receives the connection
\* message exactly once and before anything else, whatever broadcasts run
\* beside its registration; and once handle_connection has returned, for
\* whatever reason, the listener is in no session's set.
GreetingFirst ==
    \A l \in Sockets :
        LET w == endpoint[l].wire
        IN /\ w # <<>> => w[1] = "connection"
           /\ \A i \in 2..Len(w) : w[i] # "connection"
           /\ endpoint[l].phase = "receiving" => w # <<>>
           /\ endpoint[l].phase = "returned"
              => \A s \in Sessions : l \notin Connections(s)

\* C37 witness: a broadcast ran while a listener's connection message was
\* still being sent, the listener received the message and then the update,
\* and its handle_connection has returned; another listener's connection
\* message failed and its handle_connection has returned too.
GreetedThenUpdated ==
    \E l, k \in Sockets :
        /\ endpoint[l].phase = "returned"
        /\ endpoint[l].wire = <<"connection", "update">>
        /\ endpoint[k].phase = "returned"
        /\ endpoint[k].wire = <<>>

\* C38: the metadata the translation attaches reaches the listeners.  In
\* the message a listener has received for the latest broadcast, the update
\* of a thinking block carries is_thinking, the update of a tool_use block
\* the tool's name and input, and the update of a tool result with an image
\* has_screenshot.
MetadataReachesListeners ==
    \A l \in Sockets :
        (delivered.source # NoInput /\ delivered.n \in delivered.heard[l])
        => LET x == delivered.source
               m == Message(AgentUpdate(Keywords(x)))
           IN /\ (x.kind = "block" /\ x.type = "thinking")
                 => (m.update_type = "thinking" /\ "is_thinking" \in m.metadata)
              /\ (x.kind = "block" /\ x.type = "tool_use")
                 => (/\ m.update_type = "tool_use"
                     /\ {"tool_name", "tool_input"} \subseteq m.metadata)
              /\ (x.kind = "tool_result" /\ x.base64_image)
                 => (/\ m.update_type = "tool_result"
                     /\ "has_screenshot" \in m.metadata)

\* C39: a terminated session has no worker.  Once terminate_session has
\* set the status of a session's row to terminated, the pool tracks no
\* worker for the session, whatever is posted to it afterwards.
NoWorkerForTerminated ==
    \A s \in Sessions : get_session(s) = "terminated" => workers[s] = None

\* C40: no worker is dropped without cleanup.  A worker that spawn_worker
\* registered after cleanup_all took its snapshot is, when cleanup_all
\* clears the pool, either still tracked afterwards or terminated.
NoWorkerDroppedUncleaned ==
    [][\A t \in Tasks, s \in Sessions :
          (/\ task[t].pc = "gathered"
           /\ workers[s] # None
           /\ workers[s] \notin task[t].snap
           /\ cleanup_all_clear(t))
          => \/ workers'[s] = workers[s]
             \/ status'[workers[s]] = "terminated"]_vars
====
